---- MODULE Spec2Model ----
(***************************************************************************)
(* Model of the VTT -> SRT correction pipelines of vtt-improve-srt:        *)
(*   process_vtt_gemini_v3.py  (two oracle passes, context, dictionary)    *)
(*   process_vtt_gemini_v2.py  (one oracle pass)                           *)
(*   process_vtt_ai.py         (Claude JSON oracle, per-batch files)       *)
(*   process_vtt.py            (rule-based corrector, per-batch files)     *)
(*   split_vtt_to_batches.py   (batch splitter)                            *)
(* A text is a sequence of one-character strings; Japanese characters are  *)
(* written as romanised tokens ("E" for the kana e, "-" for the long-vowel *)
(* mark, "," for the ideographic comma, ...).                              *)
(***************************************************************************)
EXTENDS Integers, Sequences, FiniteSets, TLC

\* ------------------------------------------------------------------ bounds
MaxBlocks == 3
MaxChunkSize == 2
MaxWindow == 1
MaxLen == 4
MaxApplications == 2

\* ------------------------------------------------------- string primitives
IsSpace(c) == c \in {" ", "\n"}

Digits == <<"0", "1", "2", "3", "4", "5", "6", "7", "8", "9">>

IsDigit(c) == \E d \in 1..Len(Digits) : Digits[d] = c

DigitVal(c) == (CHOOSE d \in 1..Len(Digits) : Digits[d] = c) - 1

RECURSIVE lstrip(_)
lstrip(s) ==
    IF s = <<>> THEN s
    ELSE IF IsSpace(Head(s)) THEN lstrip(Tail(s)) ELSE s

RECURSIVE rstrip(_)
rstrip(s) ==
    IF s = <<>> THEN s
    ELSE IF IsSpace(s[Len(s)]) THEN rstrip(SubSeq(s, 1, Len(s) - 1)) ELSE s

\* str.strip()
strip(s) == rstrip(lstrip(s))

StartsWith(s, p) == Len(p) <= Len(s) /\ SubSeq(s, 1, Len(p)) = p

\* str.replace(old, new): leftmost non-overlapping occurrences, old non-empty
RECURSIVE str_replace(_, _, _)
str_replace(s, old, new) ==
    IF s = <<>> THEN <<>>
    ELSE IF StartsWith(s, old)
         THEN new \o str_replace(SubSeq(s, Len(old) + 1, Len(s)), old, new)
         ELSE <<Head(s)>> \o str_replace(Tail(s), old, new)

\* str.split('\n'): acc is the line being collected
RECURSIVE split_from(_, _)
split_from(s, acc) ==
    IF s = <<>> THEN <<acc>>
    ELSE IF Head(s) = "\n" THEN <<acc>> \o split_from(Tail(s), <<>>)
         ELSE split_from(Tail(s), Append(acc, Head(s)))

split(s) == split_from(s, <<>>)

\* '\n'.join(lines)
RECURSIVE join(_)
join(lines) ==
    IF lines = <<>> THEN <<>>
    ELSE IF Len(lines) = 1 THEN lines[1]
         ELSE lines[1] \o <<"\n">> \o join(Tail(lines))

\* int(digits) for a non-empty run of decimal digits
RECURSIVE int(_)
int(ds) ==
    IF ds = <<>> THEN 0
    ELSE 10 * int(SubSeq(ds, 1, Len(ds) - 1)) + DigitVal(ds[Len(ds)])

\* ------------------------------------------------------------ dictionaries
EmptyDict == [k \in {} |-> <<>>]

\* d[k] = v
DictSet(d, k, v) == [x \in (DOMAIN d) \cup {k} |-> IF x = k THEN v ELSE d[x]]

\* the map replaced by the other one
DictUpdate_replace(d, other) == other

\* d.update(other)
DictUpdate(d, other) ==
    [x \in (DOMAIN d) \cup (DOMAIN other) |->
        IF x \in DOMAIN other THEN other[x] ELSE d[x]]

\* d.get(k, default)
DictGet(d, k, default) == IF k \in DOMAIN d THEN d[k] ELSE default

\* the entries of d whose key is in S
Restrict(d, S) == [x \in (DOMAIN d) \cap S |-> d[x]]

Min(S) == CHOOSE x \in S : \A y \in S : x <= y

\* sorted(d.items()) as a list of {'index','text'} records
RECURSIVE SortedItems(_)
SortedItems(d) ==
    IF DOMAIN d = {} THEN <<>>
    ELSE LET k == Min(DOMAIN d) IN
         <<[index |-> k, text |-> d[k]]>>
            \o SortedItems([x \in (DOMAIN d) \ {k} |-> d[x]])

\* --------------------------------------------------------- Python slicing
Min2(a, b) == IF a <= b THEN a ELSE b

Max2(a, b) == IF a >= b THEN a ELSE b

\* s[a:b] with 0 <= a, 0 <= b (bounds are clamped to len(s))
Slice(s, a, b) == SubSeq(s, Min2(a, Len(s)) + 1, Min2(b, Len(s)))

\* str(i) for i >= 0
RECURSIVE str(_)
str(i) == IF i < 10 THEN <<Digits[i + 1]>> ELSE str(i \div 10) \o <<Digits[(i % 10) + 1]>>

\* --------------------------------------------------------- pattern store
\* correction_patterns.json as loaded by load_correction_patterns: two
\* wrong -> correct pairs, the second producing what the first rewrites,
\* and one filler string (declared order is the order of the sequences)
patterns ==
    [simple_patterns |-> << [wrong |-> <<"c">>, correct |-> <<"d">>],
                            [wrong |-> <<"w">>, correct |-> <<"c">>] >>,
     filler_words    |-> << <<"e", "-", ",">> >>]

\* ------------------------------------------------------ transcript parser
\* Caption texts as captured by group 3 of the block regular expression,
\* before strip(): a text that starts with a filler, a text that holds a
\* known mis-transcription, and a text with an inner blank.
Captions ==
    << <<"e", "-", ",", "t", "\n">>, <<"w", "\n">>, <<"t", " ", "w", "\n">> >>

\* the k-th block of the file is whitespace only, or holds a caption
RawTexts(k) == { <<" ", "\n">>, Captions[((k - 1) % Len(Captions)) + 1] }

\* HH:MM:SS.mmm of the k-th second
Stamp(k) == <<"0", "0", ":", "0", "0", ":", "0", Digits[k + 1], ".", "5", "0", "0">>

\* re.findall(...) results: (start, end, text) triples in document order
Matches ==
    UNION { {m \in [1..n -> UNION {RawTexts(k) : k \in 1..n}] :
                \A k \in 1..n : m[k] \in RawTexts(k)} : n \in 0..MaxBlocks }

\* read_vtt_file, after re.findall produced the list texts of group 3
RECURSIVE read_loop(_, _, _)
read_loop(texts, i, acc) ==
    IF i > Len(texts) THEN acc
    ELSE LET text == strip(texts[i]) IN
         read_loop(texts, i + 1,
             IF text # <<>>
             THEN Append(acc, [index |-> i, start |-> Stamp(i),
                               end |-> Stamp(i + 1), text |-> text])
             ELSE acc)

read_vtt_file(texts) == read_loop(texts, 1, <<>>)

\* the timestamp passed through as it is
vtt_time_unchanged(vtt_time) == vtt_time

vtt_time_to_srt_time(vtt_time) == str_replace(vtt_time, <<".">>, <<",">>)

\* ---------------------------------------------------------- speaker names
\* [A-Za-z\u3040-\u309F\u30A0-\u30FF\u4E00-\u9FFF]: letters, kana (the long
\* vowel mark "-" included) and kanji; not digits, blanks or punctuation
IsNameChar(c) ==
    ~IsDigit(c) /\ c \notin {" ", "\n", ":", ",", ".", "[", "]"}

RECURSIVE NameRun(_)
NameRun(s) == IF s # <<>> /\ IsNameChar(Head(s)) THEN 1 + NameRun(Tail(s)) ELSE 0

RECURSIVE SpaceRun(_)
SpaceRun(s) == IF s # <<>> /\ IsSpace(Head(s)) THEN 1 + SpaceRun(Tail(s)) ELSE 0

\* length of the match of  [..]+(?:\s+[..]+)*:  at the start of s, 0 without match
RECURSIVE name_match(_)
name_match(s) ==
    LET n == NameRun(s)
        r == SubSeq(s, n + 1, Len(s))
    IN IF n = 0 \/ r = <<>> THEN 0
       ELSE IF Head(r) = ":" THEN n + 1
       ELSE LET k == SpaceRun(r)
                m == name_match(SubSeq(r, k + 1, Len(r)))
            IN IF k = 0 \/ m = 0 THEN 0 ELSE n + k + m

\* re.sub(pattern, '', text): the pattern is anchored with ^ and compiled
\* without re.MULTILINE, so it can match at the start of the text only
remove_speaker_name(text) ==
    LET m == name_match(text)
    IN IF m = 0 THEN text ELSE lstrip(SubSeq(text, m + 1, Len(text)))

\* ------------------------------------------------------- dictionary pass
RECURSIVE replace_all(_, _)
replace_all(text, simple) ==
    IF simple = <<>> THEN text
    ELSE replace_all(str_replace(text, Head(simple).wrong, Head(simple).correct),
                     Tail(simple))

\* the dictionary applied a second time to its own result
apply_simple_replacements_twice(text, pats) ==
    replace_all(replace_all(text, pats.simple_patterns), pats.simple_patterns)

apply_simple_replacements(text, pats) == replace_all(text, pats.simple_patterns)

\* -------------------------------------------------------- response parser
RECURSIVE DigitRun(_)
DigitRun(s) ==
    IF s # <<>> /\ IsDigit(Head(s)) THEN <<Head(s)>> \o DigitRun(Tail(s)) ELSE <<>>

NoMatch == [matched |-> FALSE, group1 |-> <<>>, group2 |-> <<>>]

\* re.match(r'^\[(\d+)\]\s*(.*)', line) on a line without newline
re_match(line) ==
    IF line = <<>> \/ Head(line) # "[" THEN NoMatch
    ELSE LET ds   == DigitRun(Tail(line))
             rest == SubSeq(line, Len(ds) + 2, Len(line))
         IN IF ds = <<>> \/ rest = <<>> \/ Head(rest) # "]" THEN NoMatch
            ELSE [matched |-> TRUE, group1 |-> ds, group2 |-> lstrip(Tail(rest))]

\* scan_lines without the `if text:` test
RECURSIVE scan_lines_keep_empty(_, _)
scan_lines_keep_empty(lines, result) ==
    IF lines = <<>> THEN result
    ELSE LET m    == re_match(strip(Head(lines)))
             text == strip(m.group2)
         IN scan_lines_keep_empty(Tail(lines),
                IF m.matched
                THEN DictSet(result, int(m.group1), text)
                ELSE result)

RECURSIVE scan_lines(_, _)
scan_lines(lines, result) ==
    IF lines = <<>> THEN result
    ELSE LET m    == re_match(strip(Head(lines)))
             text == strip(m.group2)
         IN scan_lines(Tail(lines),
                IF m.matched /\ text # <<>>
                THEN DictSet(result, int(m.group1), text)
                ELSE result)

\* fallback that fills nothing in
fallback_skipped(original_entries, original_dict, result) == result

RECURSIVE fallback(_, _, _)
fallback(original_entries, original_dict, result) ==
    IF original_entries = <<>> THEN result
    ELSE LET idx == Head(original_entries).index IN
         fallback(Tail(original_entries), original_dict,
             IF idx \notin DOMAIN result
             THEN DictSet(result, idx, original_dict[idx])
             ELSE result)

\* {entry['index']: entry['text'] for entry in entries}
IndexTextDict(es) ==
    [i \in {es[j].index : j \in DOMAIN es} |->
        es[CHOOSE j \in DOMAIN es :
              /\ es[j].index = i
              /\ \A k \in DOMAIN es : es[k].index = i => k <= j].text]

parse_ai_response(resp, original_entries) ==
    fallback(original_entries, IndexTextDict(original_entries),
             scan_lines(split(strip(resp)), EmptyDict))

\* -------------------------------------------------- rule-based corrector
\* The filler list of correct_entry_text, in list order.  Kana are written
\* as romanised tokens: e, a, no, xtu (small tsu), to, so, ma, "-" (long
\* vowel mark), "," (ideographic comma).
fillers ==
    << <<"e", "-", ",">>, <<"e", "-">>,
       <<"a", "no", "-", ",">>, <<"a", "no", "-">>,
       <<"e", "xtu", "to", ",">>, <<"e", "xtu", "to">>,
       <<"so", "no", ",">>, <<"ma", "a", ",">>, <<"ma", "a">> >>

\* The fixed substitutions of correct_entry_text, in statement order.
\* Kanji of the replacements are written as the tokens K1..K11.
substitutions ==
    << [wrong |-> <<"na", "n", "su", "ne">>, correct |-> <<"na", "n", "de", "su", "ne">>],
       [wrong |-> <<"na", "n", "su", "ka">>, correct |-> <<"na", "n", "de", "su", "ka">>],
       [wrong |-> <<"xtu", "su", "ne">>,     correct |-> <<"de", "su", "ne">>],
       [wrong |-> <<"xtu", "su", "yo">>,     correct |-> <<"de", "su", "yo">>],
       [wrong |-> <<"xtu", "su">>,           correct |-> <<"de", "su">>],
       [wrong |-> <<"ho", "te", "tu">>,      correct |-> <<"K1", "K2">>],
       [wrong |-> <<"HO", "TE", "TU">>,      correct |-> <<"K1", "K2">>],
       [wrong |-> <<"wa", "i", "si", "xyo", "u", "si">>,
                                             correct |-> <<"K3", "K4", "K5">>],
       [wrong |-> <<"ke", "n", "zi", "xyo", "u", "si", "tu">>,
                                             correct |-> <<"K6", "K7", "K5">>],
       [wrong |-> <<"ki", "xyo", "u", "go", "u", "me", "n">>,
                                             correct |-> <<"K8", "K9", "K10">>],
       [wrong |-> <<"ko", "u", "ku", "u", "ga", "i">>,
                                             correct |-> <<"K11", "K12", "K13">>] >>

RECURSIVE remove_fillers(_, _)
remove_fillers(text, fs) ==
    IF fs = <<>> THEN text
    ELSE remove_fillers(str_replace(text, Head(fs), <<>>), Tail(fs))

correct_entry_text(text) ==
    strip(replace_all(remove_fillers(text, fillers), substitutions))

\* ---------------------------------------------------------- batch splitter
\* for i in range(0, len(entries), batch_size): batches.append(entries[i:i+batch_size])
RECURSIVE split_from_index(_, _, _)
split_from_index(es, i, batch_size) ==
    IF i >= Len(es) THEN <<>>
    ELSE <<Slice(es, i, i + batch_size)>> \o split_from_index(es, i + batch_size, batch_size)

split_into_batches(es, batch_size) == split_from_index(es, 0, batch_size)

\* ----------------------------------------------------------- oracle model
\* the value Python's None
None == <<"<None>">>

\* `if response_text:`
Truthy(r) == r # None /\ r # <<>>

\* Message contents the chat-completion service may return, besides None
\* and the empty string:
\*   "[1] A"                one corrected line
\*   "[1] n: w"             another correction of the same segment: a speaker
\*                          label before a text the dictionary rewrites
\*   "[1] A\n [2]  B "      two lines, the second with stray whitespace
\*   "[1] \n1] A"           an empty text and a line without opening bracket
\*   " "                    whitespace only
\*   "[2] A\n[2]B"          the same index twice
\*   "[3]w\n[9] A"          a text the dictionary rewrites, and an index that
\*                          no segment has
Contents ==
    { None,
      <<>>,
      <<"[", "1", "]", " ", "A">>,
      <<"[", "1", "]", " ", "n", ":", " ", "w">>,
      <<"[", "1", "]", " ", "A", "\n", " ", "[", "2", "]", " ", " ", "B", " ">>,
      <<"[", "1", "]", " ", "\n", "1", "]", " ", "A">>,
      <<" ">>,
      <<"[", "2", "]", " ", "A", "\n", "[", "2", "]", "B">>,
      <<"[", "3", "]", "w", "\n", "[", "9", "]", " ", "A">> }

\* outcome of client.chat.completions.create: an exception or a content
Outcomes ==
    {[raised |-> TRUE, content |-> None]}
      \cup { [raised |-> FALSE, content |-> c] : c \in Contents }

\* call_gemini_api: the content, or None when the call raised
call_gemini_api(outcome) == IF outcome.raised THEN None ELSE outcome.content

\* ---------------------------------------------------------------- prompts
\* f"[{e['index']}] {e['text']}"
format_line(e) == <<"[">> \o str(e.index) \o <<"]", " ">> \o e.text

format_lines(es) == [j \in DOMAIN es |-> format_line(es[j])]

\* the after-context starting at the chunk's last segment
get_context_text_overlap(es, start_idx, end_idx, window) ==
    LET before_start == Max2(0, start_idx - window)
        after_end    == Min2(Len(es), end_idx + window)
    IN [context_before |-> join(format_lines(Slice(es, before_start, start_idx))),
        context_after  |-> join(format_lines(Slice(es, end_idx - 1, after_end)))]

get_context_text(es, start_idx, end_idx, window) ==
    LET before_start == Max2(0, start_idx - window)
        after_end    == Min2(Len(es), end_idx + window)
    IN [context_before |-> join(format_lines(Slice(es, before_start, start_idx))),
        context_after  |-> join(format_lines(Slice(es, end_idx, after_end)))]

build_prompt_pass1(entries_batch, context_before, context_after) ==
    [pass |-> 1, input_text |-> join(format_lines(entries_batch)),
     context_before |-> context_before, context_after |-> context_after]

build_prompt_pass2(entries_batch) ==
    [pass |-> 2, input_text |-> join(format_lines(entries_batch)),
     context_before |-> <<>>, context_after |-> <<>>]

NoPrompt == [pass |-> 0, input_text |-> <<>>, context_before |-> <<>>, context_after |-> <<>>]

\* the chunk count rounded down
ChunkCount_floor(total_entries, size) == total_entries \div size

\* (total_entries + chunk_size - 1) // chunk_size
ChunkCount(total_entries, size) == (total_entries + size - 1) \div size

\* ------------------------------------------------------------------ state
VARIABLES
    variant,          \* which script runs
    matches,          \* group-3 texts found by re.findall in the input file
    chunk_size,       \* CONFIG["chunk_size"] / chunk_size / batch_size
    context_window,   \* CONFIG["context_window"]
    enable_two_pass,  \* CONFIG["enable_two_pass"]
    pc,               \* position of the main thread
    entries,          \* list returned by read_vtt_file
    total_chunks,     \* chunk count computed at the start of processing
    chunk_num,        \* loop variable of the chunk / batch loop
    all_corrected,    \* correction map: index -> text
    pass1_entries,    \* pass-2 work list built from the correction map
    chunk_entries,    \* the slice handed to the oracle in this iteration
    prompt,           \* the request built in this iteration
    response_text,    \* what the oracle adapter returned in this iteration
    corrected,        \* what the response parser returned in this iteration
    slept,            \* whether the iteration ended with time.sleep
    srt,              \* records of final_output_corrected.srt
    batch_files,      \* records of output_batch_<n>.srt, by batch number
    batches,          \* list returned by split_into_batches
    dispatched,       \* history: the batches handed to a corrector so far
    all_failed,       \* history: no oracle call of the run produced a response
    pass2_returned,   \* history: segment -> text its pass-2 chunk's response gave it
    pre_post,         \* history: the correction map when the last oracle pass ended
    log,              \* history: dispatches, returns, merges and sleeps, in order
    remove_speaker,   \* the answer given to ask_remove_speaker_names
    rule_input,       \* the text handed to correct_entry_text
    rule_trace,       \* the results of the successive applications to it
    call_pc,          \* position of the main thread in call_gemini_api
    calls,            \* number of calls that have returned to the scheduler
    api_outcome,      \* what client.chat.completions.create did in this call
    call_result,      \* what the last call returned
    call_path,        \* the path the last call returned on
    spinner_running,  \* Spinner.running
    spinner_thread,   \* Spinner.thread: "none", "alive" or "dead"
    spin_pc,          \* position of the spinner thread in _spin
    spin_idx,         \* idx of _spin
    spinner_touched   \* history: the attributes and streams _spin has used

\* the state of a pipeline run
pipeline == <<variant, matches, chunk_size, context_window, enable_two_pass, pc,
              entries, total_chunks, chunk_num, all_corrected, pass1_entries,
              chunk_entries, prompt, response_text, corrected, slept, srt,
              batch_files, batches, dispatched, all_failed, pass2_returned,
              pre_post, log, remove_speaker>>

corrector == <<rule_input, rule_trace>>

spinner == <<call_pc, calls, api_outcome, call_result, call_path, spinner_running,
             spinner_thread, spin_pc, spin_idx, spinner_touched>>

vars == <<pipeline, corrector, spinner>>

history == <<dispatched, all_failed, pass2_returned, pre_post, log>>

files == <<batch_files, batches>>

config == <<variant, matches, chunk_size, context_window, enable_two_pass>>

\* what the pipelines leave alone
aux == <<corrector, spinner>>

Variants == {"gemini_v3", "gemini_v2", "claude_ai", "rule", "split"}

\* no text is being corrected on its own
CorrectorIdle ==
    /\ rule_input = <<>>
    /\ rule_trace = <<>>

NoOutcome == [raised |-> FALSE, content |-> None]

\* no Spinner object exists
SpinnerIdle ==
    /\ call_pc = "scheduler"
    /\ calls = 0
    /\ api_outcome = NoOutcome
    /\ call_result = None
    /\ call_path = "none"
    /\ spinner_running = FALSE
    /\ spinner_thread = "none"
    /\ spin_pc = "check"
    /\ spin_idx = 0
    /\ spinner_touched = {}

Init ==
    /\ variant \in Variants
    /\ matches \in Matches
    /\ chunk_size \in 1..MaxChunkSize
    /\ context_window \in (IF variant = "gemini_v3" THEN 1..MaxWindow ELSE {0})
    /\ enable_two_pass \in (IF variant = "gemini_v3" THEN BOOLEAN ELSE {FALSE})
    /\ pc = "start"
    /\ entries = <<>>
    /\ total_chunks = 0
    /\ chunk_num = 0
    /\ all_corrected = EmptyDict
    /\ pass1_entries = <<>>
    /\ chunk_entries = <<>>
    /\ prompt = NoPrompt
    /\ response_text = None
    /\ corrected = EmptyDict
    /\ slept = FALSE
    /\ srt = <<>>
    /\ batch_files = EmptyDict
    /\ batches = <<>>
    /\ dispatched = <<>>
    /\ all_failed = TRUE
    /\ pass2_returned = EmptyDict
    /\ pre_post = EmptyDict
    /\ log = <<>>
    /\ remove_speaker = FALSE
    /\ CorrectorIdle
    /\ SpinnerIdle

\* main: read_vtt_file, then the chunk count (the prologue of
\* process_entries, or total_batches in main)
ReadVtt ==
    /\ pc = "start"
    /\ entries' = read_vtt_file(matches)
    /\ total_chunks' = ChunkCount(Len(entries'), chunk_size)
    /\ all_corrected' = EmptyDict
    /\ chunk_num' = 1
    /\ pc' = (IF variant \in {"gemini_v3", "gemini_v2"} THEN "pass1"
              ELSE IF variant = "split" THEN "split" ELSE "batch")
    /\ UNCHANGED <<aux, remove_speaker, config, files, history, pass1_entries, chunk_entries, prompt, response_text,
                   corrected, slept, srt>>

\* CONFIG["sleep_between_chunks"] (v3), time.sleep(1) (v2), time.sleep(3)
\* (process_vtt_ai.py); process_vtt.py does not sleep
sleep_seconds(v) ==
    IF v = "claude_ai" THEN 3 ELSE IF v \in {"gemini_v3", "gemini_v2"} THEN 1 ELSE 0

Event(type, pass, num, seconds) ==
    [type |-> type, pass |-> pass, chunk |-> num, seconds |-> seconds]

\* the blocking call of an iteration and the merge of its result
call_events(pass, num) ==
    << Event("dispatch", pass, num, 0), Event("return", pass, num, 0),
       Event("merge", pass, num, 0) >>

\* the loop body sleeping after every chunk, the last one too
chunk_events_sleep_always(pass, num, total, seconds) ==
    Append(call_events(pass, num), Event("sleep", pass, num, seconds))

\* one iteration of a chunk loop: the call, the merge, and
\* `if chunk_num < total_chunks: time.sleep(...)`
chunk_events(pass, num, total, seconds) ==
    IF num < total
    THEN Append(call_events(pass, num), Event("sleep", pass, num, seconds))
    ELSE call_events(pass, num)

\* history record of one dispatched batch
Batch(pass, num, es) ==
    [pass |-> pass, chunk_num |-> num, indices |-> [j \in DOMAIN es |-> es[j].index]]

\* the fallback branch writing nothing
keep_original_nothing(es, d) == d

\* for entry in chunk_entries: all_corrected[entry['index']] = entry['text']
RECURSIVE keep_original(_, _)
keep_original(es, d) ==
    IF es = <<>> THEN d
    ELSE keep_original(Tail(es), DictSet(d, Head(es).index, Head(es).text))

\* one iteration of the pass-1 loop of process_entries (v3)
Pass1Chunk ==
    /\ variant = "gemini_v3"
    /\ pc = "pass1"
    /\ chunk_num <= total_chunks
    /\ \E outcome \in Outcomes :
        LET start_idx == (chunk_num - 1) * chunk_size
            end_idx   == Min2(start_idx + chunk_size, Len(entries))
            ce        == Slice(entries, start_idx, end_idx)
            ctx       == get_context_text(entries, start_idx, end_idx, context_window)
            r         == call_gemini_api(outcome)
        IN /\ chunk_entries' = ce
           /\ prompt' = build_prompt_pass1(ce, ctx.context_before, ctx.context_after)
           /\ response_text' = r
           /\ IF Truthy(r)
              THEN /\ corrected' = parse_ai_response(r, ce)
                   /\ all_corrected' = DictUpdate(all_corrected, corrected')
              ELSE /\ corrected' = corrected
                   /\ all_corrected' = keep_original(ce, all_corrected)
    /\ dispatched' = Append(dispatched, Batch(1, chunk_num, chunk_entries'))
    /\ log' = log \o chunk_events(1, chunk_num, total_chunks, sleep_seconds(variant))
    /\ all_failed' = (all_failed /\ ~Truthy(response_text'))
    /\ slept' = (chunk_num < total_chunks)
    /\ chunk_num' = chunk_num + 1
    /\ UNCHANGED <<aux, remove_speaker, config, files, pc, entries, total_chunks, pass1_entries, srt,
                   pass2_returned, pre_post>>

\* end of the pass-1 loop: build the pass-2 work list, or go to post-processing
Pass1Done ==
    /\ variant = "gemini_v3"
    /\ pc = "pass1"
    /\ chunk_num > total_chunks
    /\ IF enable_two_pass
       THEN /\ pass1_entries' = SortedItems(all_corrected)
            /\ chunk_num' = 1
            /\ pc' = "pass2"
       ELSE /\ pc' = "post"
            /\ UNCHANGED <<pass1_entries, chunk_num>>
    /\ UNCHANGED <<aux, remove_speaker, config, files, history, entries, total_chunks, all_corrected, chunk_entries,
                   prompt, response_text, corrected, slept, srt>>

\* one iteration of the pass-2 loop of process_entries (v3)
Pass2Chunk ==
    /\ variant = "gemini_v3"
    /\ pc = "pass2"
    /\ chunk_num <= total_chunks
    /\ \E outcome \in Outcomes :
        LET start_idx == (chunk_num - 1) * chunk_size
            end_idx   == Min2(start_idx + chunk_size, Len(pass1_entries))
            ce        == Slice(pass1_entries, start_idx, end_idx)
            r         == call_gemini_api(outcome)
        IN /\ chunk_entries' = ce
           /\ prompt' = build_prompt_pass2(ce)
           /\ response_text' = r
           /\ IF Truthy(r)
              THEN /\ corrected' = parse_ai_response(r, ce)
                   /\ all_corrected' = DictUpdate(all_corrected, corrected')
              ELSE UNCHANGED <<corrected, all_corrected>>
    /\ dispatched' = Append(dispatched, Batch(2, chunk_num, chunk_entries'))
    /\ log' = log \o chunk_events(2, chunk_num, total_chunks, sleep_seconds(variant))
    /\ all_failed' = (all_failed /\ ~Truthy(response_text'))
    /\ pass2_returned' =
          (IF Truthy(response_text')
           THEN DictUpdate(pass2_returned,
                   Restrict(scan_lines(split(strip(response_text')), EmptyDict),
                            {chunk_entries'[j].index : j \in DOMAIN chunk_entries'}))
           ELSE pass2_returned)
    /\ slept' = (chunk_num < total_chunks)
    /\ chunk_num' = chunk_num + 1
    /\ UNCHANGED <<aux, remove_speaker, config, files, pc, entries, total_chunks, pass1_entries, srt,
                   pre_post>>

Pass2Done ==
    /\ variant = "gemini_v3"
    /\ pc = "pass2"
    /\ chunk_num > total_chunks
    /\ pc' = "post"
    /\ UNCHANGED <<aux, remove_speaker, config, files, history, entries, total_chunks, chunk_num, all_corrected,
                   pass1_entries, chunk_entries, prompt, response_text, corrected,
                   slept, srt>>

\* the dictionary pass at the end of process_entries (v3)
PostProcess ==
    /\ variant = "gemini_v3"
    /\ pc = "post"
    /\ all_corrected' =
          [idx \in DOMAIN all_corrected |->
              apply_simple_replacements(all_corrected[idx], patterns)]
    /\ pre_post' = all_corrected
    /\ pc' = "write"
    /\ UNCHANGED <<aux, remove_speaker, config, files, dispatched, all_failed, pass2_returned, log,
                   entries, total_chunks, chunk_num, pass1_entries,
                   chunk_entries, prompt, response_text, corrected, slept, srt>>

\* write_srt_file looping over the correction map instead of the entries
write_srt_file_over_map(es, corrected_texts, remove) ==
    LET items == SortedItems(corrected_texts) IN
    [j \in DOMAIN items |->
        [num   |-> items[j].index,
         start |-> vtt_time_to_srt_time(Stamp(items[j].index)),
         end   |-> vtt_time_to_srt_time(Stamp((items[j].index + 1) % 10)),
         text  |-> items[j].text]]

\* the records write_srt_file writes
write_srt_file(es, corrected_texts, remove) ==
    [j \in DOMAIN es |->
        LET text == DictGet(corrected_texts, es[j].index, es[j].text) IN
        [num   |-> es[j].index,
         start |-> vtt_time_to_srt_time(es[j].start),
         end   |-> vtt_time_to_srt_time(es[j].end),
         text  |-> IF remove THEN remove_speaker_name(text) ELSE text]]

\* main: write_srt_file.  The answer to ask_remove_speaker_names (v3 only;
\* write_srt_file of v2 has no such parameter) is used by this call alone,
\* so it is drawn here.
WriteSrt ==
    /\ variant \in {"gemini_v3", "gemini_v2"}
    /\ pc = "write"
    /\ \E answer \in (IF variant = "gemini_v3" THEN BOOLEAN ELSE {FALSE}) :
          /\ remove_speaker' = answer
          /\ srt' = write_srt_file(entries, all_corrected, answer)
    /\ pc' = "done"
    /\ UNCHANGED <<aux, config, files, history, entries, total_chunks, chunk_num, all_corrected,
                   pass1_entries, chunk_entries, prompt, response_text, corrected,
                   slept>>

\* one iteration of the chunk loop of process_entries (v2); the function
\* returns after the last chunk
V2Chunk ==
    /\ variant = "gemini_v2"
    /\ pc = "pass1"
    /\ chunk_num <= total_chunks
    /\ \E outcome \in Outcomes :
        LET start_idx == (chunk_num - 1) * chunk_size
            end_idx   == Min2(start_idx + chunk_size, Len(entries))
            ce        == Slice(entries, start_idx, end_idx)
            r         == call_gemini_api(outcome)
        IN /\ chunk_entries' = ce
           /\ prompt' = build_prompt_pass1(ce, <<>>, <<>>)
           /\ response_text' = r
           /\ IF Truthy(r)
              THEN /\ corrected' = parse_ai_response(r, ce)
                   /\ all_corrected' = DictUpdate(all_corrected, corrected')
              ELSE /\ corrected' = corrected
                   /\ all_corrected' = keep_original(ce, all_corrected)
    /\ dispatched' = Append(dispatched, Batch(1, chunk_num, chunk_entries'))
    /\ log' = log \o chunk_events(1, chunk_num, total_chunks, sleep_seconds(variant))
    /\ all_failed' = (all_failed /\ ~Truthy(response_text'))
    /\ slept' = (chunk_num < total_chunks)
    /\ chunk_num' = chunk_num + 1
    /\ UNCHANGED <<aux, remove_speaker, config, files, pc, entries, total_chunks, pass1_entries, srt,
                   pass2_returned, pre_post>>

V2Done ==
    /\ variant = "gemini_v2"
    /\ pc = "pass1"
    /\ chunk_num > total_chunks
    /\ pc' = "write"
    /\ UNCHANGED <<aux, remove_speaker, config, files, history, entries, total_chunks, chunk_num, all_corrected,
                   pass1_entries, chunk_entries, prompt, response_text, corrected,
                   slept, srt>>

\* ------------------------------------------------- Claude JSON pipeline
\* what json.loads made of the answer, when it is a list of index/text items
JsonItems ==
    { <<>>,
      << [index |-> 1, text |-> <<"A">>] >>,
      << [index |-> 2, text |-> <<"B">>], [index |-> 1, text |-> <<"A">>] >>,
      << [index |-> 9, text |-> <<"A">>] >> }

\* client.messages.create raises; the answer is not JSON; the answer is
\* JSON of another shape; the answer is a list of items
ClaudeOutcomes ==
    { [kind |-> "raise", value |-> <<>>],
      [kind |-> "undecodable", value |-> <<>>],
      [kind |-> "not_items", value |-> <<>>] }
      \cup { [kind |-> "items", value |-> v] : v \in JsonItems }

\* is_items tells whether the returned value is a list of index/text objects
\* (process_batch raises on any other value)
call_claude_api(entries_batch, outcome) ==
    IF outcome.kind = "raise"
    THEN [raised |-> TRUE, is_items |-> FALSE, value |-> <<>>]
    ELSE IF outcome.kind = "undecodable"
         THEN [raised |-> FALSE, is_items |-> TRUE,
               value |-> [j \in DOMAIN entries_batch |->
                            [index |-> entries_batch[j].index,
                             text  |-> entries_batch[j].text]]]
         ELSE [raised |-> FALSE, is_items |-> outcome.kind = "items",
               value |-> outcome.value]

\* the records written for a batch
batch_records(es) ==
    [j \in DOMAIN es |->
        [num   |-> es[j].index,
         start |-> vtt_time_to_srt_time(es[j].start),
         end   |-> vtt_time_to_srt_time(es[j].end),
         text  |-> es[j].text]]

\* one iteration of the batch loop of main with process_batch
\* (process_vtt_ai.py); an exception ends the process
AiBatch ==
    /\ variant = "claude_ai"
    /\ pc = "batch"
    /\ chunk_num <= total_chunks
    /\ \E outcome \in ClaudeOutcomes :
        LET start_idx == (chunk_num - 1) * chunk_size
            end_idx   == Min2(start_idx + chunk_size, Len(entries))
            be        == Slice(entries, start_idx, end_idx)
            res       == call_claude_api(be, outcome)
        IN IF res.raised \/ ~res.is_items
           THEN /\ pc' = "crashed"
                /\ chunk_entries' = be
                /\ dispatched' = Append(dispatched, Batch(1, chunk_num, be))
                /\ log' = (IF res.raised
                           THEN Append(log, Event("dispatch", 1, chunk_num, 0))
                           ELSE log \o SubSeq(call_events(1, chunk_num), 1, 2))
                /\ UNCHANGED <<entries, corrected, batch_files, slept, chunk_num>>
           ELSE LET corrected_dict == IndexTextDict(res.value)
                    updated == [j \in DOMAIN entries |->
                                  IF /\ j > start_idx
                                     /\ j <= end_idx
                                     /\ entries[j].index \in DOMAIN corrected_dict
                                  THEN [entries[j] EXCEPT
                                          !.text = corrected_dict[entries[j].index]]
                                  ELSE entries[j]]
                IN /\ entries' = updated
                   /\ chunk_entries' = Slice(updated, start_idx, end_idx)
                   /\ corrected' = corrected_dict
                   /\ batch_files' = DictSet(batch_files, chunk_num,
                                         batch_records(chunk_entries'))
                   /\ slept' = (chunk_num < total_chunks)
                   /\ chunk_num' = chunk_num + 1
                   /\ dispatched' = Append(dispatched, Batch(1, chunk_num, be))
                   /\ log' = log \o chunk_events(1, chunk_num, total_chunks,
                                                 sleep_seconds(variant))
                   /\ pc' = pc
    /\ UNCHANGED <<aux, remove_speaker, config, batches, total_chunks, all_corrected, pass1_entries,
                   prompt, response_text, srt, all_failed, pass2_returned, pre_post>>

\* --------------------------------------------------- rule-based pipeline
\* one iteration of the batch loop of main with process_batch (process_vtt.py)
RuleBatch ==
    /\ variant = "rule"
    /\ pc = "batch"
    /\ chunk_num <= total_chunks
    /\ LET start_idx == (chunk_num - 1) * chunk_size
           end_idx   == Min2(start_idx + chunk_size, Len(entries))
           be        == Slice(entries, start_idx, end_idx)
       IN /\ chunk_entries' = be
          /\ batch_files' = DictSet(batch_files, chunk_num,
                [j \in DOMAIN be |->
                    [num   |-> be[j].index,
                     start |-> vtt_time_to_srt_time(be[j].start),
                     end   |-> vtt_time_to_srt_time(be[j].end),
                     text  |-> correct_entry_text(be[j].text)]])
    /\ dispatched' = Append(dispatched, Batch(1, chunk_num, chunk_entries'))
    /\ log' = log \o call_events(1, chunk_num)
    /\ chunk_num' = chunk_num + 1
    /\ UNCHANGED <<aux, remove_speaker, config, batches, pc, entries, total_chunks, all_corrected,
                   pass1_entries, prompt, response_text, corrected, slept, srt,
                   all_failed, pass2_returned, pre_post>>

\* merge_batch_files: the batch files that exist, in batch order
RECURSIVE merge_from(_, _, _)
merge_from(fs, batch_num, total_batches) ==
    IF batch_num > total_batches THEN <<>>
    ELSE (IF batch_num \in DOMAIN fs THEN fs[batch_num] ELSE <<>>)
            \o merge_from(fs, batch_num + 1, total_batches)

merge_batch_files(fs, total_batches) == merge_from(fs, 1, total_batches)

MergeBatchFiles ==
    /\ variant \in {"claude_ai", "rule"}
    /\ pc = "batch"
    /\ chunk_num > total_chunks
    /\ srt' = merge_batch_files(batch_files, total_chunks)
    /\ pc' = "done"
    /\ UNCHANGED <<aux, remove_speaker, config, files, history, entries, total_chunks, chunk_num, all_corrected,
                   pass1_entries, chunk_entries, prompt, response_text, corrected,
                   slept>>

\* ----------------------------------------------------------- the splitter
SplitBatches ==
    /\ variant = "split"
    /\ pc = "split"
    /\ batches' = split_into_batches(entries, chunk_size)
    /\ pc' = "done"
    /\ UNCHANGED <<aux, remove_speaker, config, history, batch_files, entries, total_chunks, chunk_num,
                   all_corrected, pass1_entries, chunk_entries, prompt,
                   response_text, corrected, slept, srt>>

Next ==
    \/ ReadVtt
    \/ Pass1Chunk
    \/ Pass1Done
    \/ Pass2Chunk
    \/ Pass2Done
    \/ PostProcess
    \/ WriteSrt
    \/ V2Chunk
    \/ V2Done
    \/ AiBatch
    \/ RuleBatch
    \/ MergeBatchFiles
    \/ SplitBatches

Spec == Init /\ [][Next]_vars

\* ------------------------------------------- the corrector on its own
\* The characters the filler list is made of, and a blank.
RuleAlphabet == {"e", "-", ",", "ma", "a", " "}

Texts(n) == UNION {[1..k -> RuleAlphabet] : k \in 0..n}

\* no pipeline is running
PipelineIdle ==
    /\ variant = "rule"
    /\ matches = <<>>
    /\ chunk_size = 1
    /\ context_window = 0
    /\ enable_two_pass = FALSE
    /\ pc = "idle"
    /\ entries = <<>>
    /\ total_chunks = 0
    /\ chunk_num = 0
    /\ all_corrected = EmptyDict
    /\ pass1_entries = <<>>
    /\ chunk_entries = <<>>
    /\ prompt = NoPrompt
    /\ response_text = None
    /\ corrected = EmptyDict
    /\ slept = FALSE
    /\ srt = <<>>
    /\ batch_files = EmptyDict
    /\ batches = <<>>
    /\ dispatched = <<>>
    /\ all_failed = TRUE
    /\ pass2_returned = EmptyDict
    /\ pre_post = EmptyDict
    /\ log = <<>>
    /\ remove_speaker = FALSE

InitCorrector ==
    /\ rule_input \in Texts(MaxLen)
    /\ rule_trace = <<>>
    /\ PipelineIdle
    /\ SpinnerIdle

\* correct_entry_text applied to the input, then to its own result
Correct ==
    /\ pc = "idle"
    /\ Len(rule_trace) < MaxApplications
    /\ rule_trace' = Append(rule_trace,
                         correct_entry_text(IF rule_trace = <<>> THEN rule_input
                                            ELSE rule_trace[Len(rule_trace)]))
    /\ UNCHANGED <<pipeline, spinner, rule_input>>

SpecCorrector == InitCorrector /\ [][Correct]_vars

\* ------------------------------------- call_gemini_api and its Spinner
\* chars of _spin: ten frames
SpinnerFrames == 10

\* a response whose choices list is empty: response.choices[0] raises
NoChoices == [raised |-> FALSE, content |-> <<"<IndexError>">>]

\* create raises; it returns a content, None or "[1] A"; it returns a
\* response without choices
CallOutcomes ==
    { [raised |-> TRUE, content |-> None],
      [raised |-> FALSE, content |-> None],
      [raised |-> FALSE, content |-> <<"[", "1", "]", " ", "A">>],
      NoChoices }

InitSpinner ==
    /\ PipelineIdle
    /\ CorrectorIdle
    /\ SpinnerIdle

\* the scheduler calls call_gemini_api: Spinner(...), then start():
\* running = True, start_time, Thread(target=_spin).start()
CallStart ==
    /\ call_pc = "scheduler"
    /\ calls < MaxBlocks
    /\ spinner_running' = TRUE
    /\ spinner_thread' = "alive"
    /\ spin_pc' = "check"
    /\ spin_idx' = 0
    /\ api_outcome' = NoOutcome
    /\ call_pc' = "create"
    /\ UNCHANGED <<pipeline, corrector, calls, call_result, call_path, spinner_touched>>

\* client.chat.completions.create returns or raises
ApiCompletes ==
    /\ call_pc = "create"
    /\ \E outcome \in CallOutcomes :
          /\ api_outcome' = outcome
          /\ call_pc' = (IF outcome.raised THEN "stop_failure" ELSE "stop_success")
    /\ UNCHANGED <<pipeline, corrector, calls, call_result, call_path, spinner_running,
                   spinner_thread, spin_pc, spin_idx, spinner_touched>>

\* stop(): self.running = False
StopFlag ==
    /\ call_pc \in {"stop_success", "stop_failure"}
    /\ spinner_running' = FALSE
    /\ call_pc' = (IF call_pc = "stop_success" THEN "join_success" ELSE "join_failure")
    /\ UNCHANGED <<pipeline, corrector, calls, api_outcome, call_result, call_path,
                   spinner_thread, spin_pc, spin_idx, spinner_touched>>

\* stop() going on without waiting for the thread
thread_joined_nowait(thread) == TRUE

\* `if self.thread: self.thread.join()` has returned
thread_joined(thread) == thread \in {"none", "dead"}

\* stop(): the join, then the status line
Join ==
    /\ call_pc \in {"join_success", "join_failure"}
    /\ thread_joined(spinner_thread)
    /\ call_pc' = (IF call_pc = "join_success" THEN "read" ELSE "fail")
    /\ UNCHANGED <<pipeline, corrector, calls, api_outcome, call_result, call_path,
                   spinner_running, spinner_thread, spin_pc, spin_idx, spinner_touched>>

\* `return response.choices[0].message.content`; an exception raised here
\* is caught like one of create and stop(success=False) runs
ReadContent ==
    /\ call_pc = "read"
    /\ IF api_outcome = NoChoices
       THEN /\ call_pc' = "stop_failure"
            /\ UNCHANGED <<calls, call_result, call_path>>
       ELSE /\ call_result' = call_gemini_api(api_outcome)
            /\ call_path' = "success"
            /\ calls' = calls + 1
            /\ call_pc' = "scheduler"
    /\ UNCHANGED <<pipeline, corrector, api_outcome, spinner_running, spinner_thread,
                   spin_pc, spin_idx, spinner_touched>>

\* the except branch after stop(success=False): the error box, `return None`
ReturnNone ==
    /\ call_pc = "fail"
    /\ call_result' = None
    /\ call_path' = "failure"
    /\ calls' = calls + 1
    /\ call_pc' = "scheduler"
    /\ UNCHANGED <<pipeline, corrector, api_outcome, spinner_running, spinner_thread,
                   spin_pc, spin_idx, spinner_touched>>

\* _spin: `while self.running:`
SpinCheck ==
    /\ spinner_thread = "alive"
    /\ spin_pc = "check"
    /\ spinner_touched' = spinner_touched \cup {"running"}
    /\ IF spinner_running
       THEN spin_pc' = "write" /\ UNCHANGED spinner_thread
       ELSE spinner_thread' = "dead" /\ UNCHANGED spin_pc
    /\ UNCHANGED <<pipeline, corrector, call_pc, calls, api_outcome, call_result,
                   call_path, spinner_running, spin_idx>>

\* _spin: elapsed, sys.stdout.write and flush, idx = (idx + 1) % len(chars)
SpinWrite ==
    /\ spinner_thread = "alive"
    /\ spin_pc = "write"
    /\ spinner_touched' = spinner_touched \cup {"start_time", "message", "stdout"}
    /\ spin_idx' = (spin_idx + 1) % SpinnerFrames
    /\ spin_pc' = "sleep"
    /\ UNCHANGED <<pipeline, corrector, call_pc, calls, api_outcome, call_result,
                   call_path, spinner_running, spinner_thread>>

\* _spin: time.sleep(0.1)
SpinSleep ==
    /\ spinner_thread = "alive"
    /\ spin_pc = "sleep"
    /\ spin_pc' = "check"
    /\ UNCHANGED <<pipeline, corrector, call_pc, calls, api_outcome, call_result,
                   call_path, spinner_running, spinner_thread, spin_idx,
                   spinner_touched>>

SpinnerThread == SpinCheck \/ SpinWrite \/ SpinSleep

NextSpinner ==
    \/ CallStart
    \/ ApiCompletes
    \/ StopFlag
    \/ Join
    \/ ReadContent
    \/ ReturnNone
    \/ SpinCheck
    \/ SpinWrite
    \/ SpinSleep

\* the spinner thread runs whenever it can (it only sleeps 0.1 s at a time)
SpecSpinner == InitSpinner /\ [][NextSpinner]_vars /\ WF_vars(SpinnerThread)

\* --------------------------------------------- the emitters on their own
\* Timestamps \d{2}:\d{2}:\d{2}\.\d{3} as the block pattern captures them
Timestamps ==
    { hh \o <<":">> \o mm \o <<":">> \o ss \o <<".">> \o fff :
        hh \in { <<"0", "0">>, <<"1", "2">> },
        mm \in { <<"0", "0">>, <<"5", "9">> },
        ss \in { <<"0", "7">> },
        fff \in { <<"0", "0", "0">>, <<"5", "0", "0">>, <<"9", "9", "9">> } }

\* Caption texts with and without speaker labels:
\*   "n: t"         a label
\*   "n m: t"       a label of two words
\*   "t w"          no label
\*   "n: t\nm: w"   two lines, each with a label
\*   "t\nm: w"      two lines, the second with a label
\*   "1: t"         digits before the colon
SpeakerTexts ==
    { <<"n", ":", " ", "t">>,
      <<"n", " ", "m", ":", " ", "t">>,
      <<"t", " ", "w">>,
      <<"n", ":", " ", "t", "\n", "m", ":", " ", "w">>,
      <<"t", "\n", "m", ":", " ", "w">>,
      <<"1", ":", " ", "t">> }

\* a later segment of the same transcript (block 2 was dropped)
LaterSegment ==
    [index |-> 3, start |-> Stamp(3), end |-> Stamp(4),
     text |-> <<"n", ":", " ", "t", "\n", "m", ":", " ", "w">>]

\* segment lists as read_vtt_file returns them
EmitterEntries ==
    LET first == { [index |-> 1, start |-> a, end |-> b, text |-> t] :
                      a \in Timestamps, b \in Timestamps, t \in SpeakerTexts }
    IN { <<seg>> : seg \in first } \cup { <<seg, LaterSegment>> : seg \in first }

\* correction maps as process_entries returns them for the segments es: the
\* first segment has its own text (fallback) or a line of the oracle, the
\* others their own text, all after the dictionary pass
EmitterMaps(es) ==
    { [i \in {es[j].index : j \in DOMAIN es} |->
          apply_simple_replacements(
              IF i = es[1].index THEN first
              ELSE es[CHOOSE j \in DOMAIN es : es[j].index = i].text,
              patterns)] :
        first \in { es[1].text, <<"m", ":", " ", "w">> } }

\* a run that has parsed its input and is about to write: the Gemini v3
\* pipeline after process_entries, or process_vtt.py before its batch loop
InitEmitter ==
    /\ variant \in {"gemini_v3", "rule"}
    /\ matches = <<>>
    /\ chunk_size = 1
    /\ context_window = 0
    /\ enable_two_pass = FALSE
    /\ entries \in EmitterEntries
    /\ all_corrected \in (IF variant = "gemini_v3" THEN EmitterMaps(entries)
                          ELSE {EmptyDict})
    /\ pc = (IF variant = "gemini_v3" THEN "write" ELSE "batch")
    /\ total_chunks = ChunkCount(Len(entries), chunk_size)
    /\ chunk_num = 1
    /\ pass1_entries = <<>>
    /\ chunk_entries = <<>>
    /\ prompt = NoPrompt
    /\ response_text = None
    /\ corrected = EmptyDict
    /\ slept = FALSE
    /\ srt = <<>>
    /\ batch_files = EmptyDict
    /\ batches = <<>>
    /\ dispatched = <<>>
    /\ all_failed = TRUE
    /\ pass2_returned = EmptyDict
    /\ pre_post = EmptyDict
    /\ log = <<>>
    /\ remove_speaker = FALSE
    /\ CorrectorIdle
    /\ SpinnerIdle

NextEmitter ==
    \/ WriteSrt
    \/ RuleBatch
    \/ MergeBatchFiles

SpecEmitter == InitEmitter /\ [][NextEmitter]_vars

\* ================================================================= claims
\* the segments the Transcript Parser produced for this run's input
parsed == read_vtt_file(matches)

Indices(es) == [j \in DOMAIN es |-> es[j].index]

IndexSet(es) == {es[j].index : j \in DOMAIN es}

TextAt(es, i) == es[CHOOSE j \in DOMAIN es : es[j].index = i].text

Gemini == {"gemini_v3", "gemini_v2"}

\* C1 (Completeness): whatever the oracle answered or failed to answer, the
\* record numbers written to the final subtitle file are exactly the
\* parser's indices, each once, in the parser's order.
C1_Completeness ==
    (pc = "done" /\ variant # "split")
        => [j \in DOMAIN srt |-> srt[j].num] = Indices(parsed)

\* a two-pass run that merged the index of no segment, whose last oracle
\* call failed, and whose parser dropped a block, has written its file
C1_Witness ==
    /\ pc = "done"
    /\ variant = "gemini_v3"
    /\ enable_two_pass
    /\ Len(srt) >= 2
    /\ Len(srt) < Len(matches)
    /\ 9 \in DOMAIN all_corrected
    /\ ~Truthy(response_text)

\* The shapes "[digits] text" a line can have: p is the position of the last
\* digit and q the position before the text starts, in the trimmed line.
LineForm(line) ==
    LET s == strip(line) IN
    { pq \in (2..(Len(s) - 1)) \X (3..(Len(s) - 1)) :
        /\ s[1] = "["
        /\ \A k \in 2..pq[1] : IsDigit(s[k])
        /\ s[pq[1] + 1] = "]"
        /\ pq[2] >= pq[1] + 1
        /\ \A k \in (pq[1] + 2)..pq[2] : IsSpace(s[k])
        /\ ~IsSpace(s[pq[2] + 1]) }

\* the line has the form "[i] text" with a non-empty text
ValidFor(line, i) ==
    \E pq \in LineForm(line) : int(SubSeq(strip(line), 2, pq[1])) = i

TextOfLine(line) ==
    LET s  == strip(line)
        pq == CHOOSE x \in LineForm(line) : TRUE
    IN SubSeq(s, pq[2] + 1, Len(s))

NoValidLine(r) == \A k \in DOMAIN split(r) : LineForm(split(r)[k]) = {}

FailureOutcome(d, es) ==
    [x \in (DOMAIN d) \cup IndexSet(es) |->
        IF x \in IndexSet(es) THEN TextAt(es, x) ELSE d[x]]

ChunkStep ==
    /\ variant \in Gemini
    /\ pc \in {"pass1", "pass2"}
    /\ chunk_num' = chunk_num + 1

\* C4: indices in a response that belong to no segment of the batch are
\* ignored: the parser's result has exactly the batch's indices as keys, and
\* merging it changes no entry of the correction map outside the batch.
C4_ExtraIndicesIgnored ==
    [][ (ChunkStep /\ Truthy(response_text'))
        => ( /\ DOMAIN corrected' = IndexSet(chunk_entries')
             /\ \A x \in (DOMAIN all_corrected') \ IndexSet(chunk_entries') :
                    /\ x \in DOMAIN all_corrected
                    /\ all_corrected'[x] = all_corrected[x] )
      ]_vars

\* ceil(n / k), as the least m with m * k >= n
Ceil(n, k) == CHOOSE m \in 0..n : m * k >= n /\ (m = 0 \/ (m - 1) * k < n)

\* every chunk of every pass the configuration asks for has been dispatched
AllChunksDispatched ==
    \A p \in (IF variant = "gemini_v3" /\ enable_two_pass THEN {1, 2} ELSE {1}) :
        \A c \in 1..Ceil(Len(parsed), chunk_size) :
            \E k \in DOMAIN dispatched :
                dispatched[k].pass = p /\ dispatched[k].chunk_num = c

\* C5: a chunk whose oracle call failed is a no-op: in pass 1 its segments
\* get their original text and in pass 2 they keep the text the map held, no
\* other entry changes, the loop goes on with the next chunk, and the run
\* ends only after every chunk of every pass was dispatched.
C5_FailedChunkIsNoOp ==
    /\ []( (variant \in Gemini /\ pc \in {"post", "write", "done"})
              => AllChunksDispatched )
    /\ [][ (ChunkStep /\ ~Truthy(response_text'))
           => ( /\ pc' = pc
                /\ \A i \in IndexSet(chunk_entries') :
                       /\ i \in DOMAIN all_corrected'
                       /\ pc = "pass1" => all_corrected'[i] = TextAt(parsed, i)
                       /\ pc = "pass2" => /\ i \in DOMAIN all_corrected
                                          /\ all_corrected'[i] = all_corrected[i]
                /\ \A x \in (DOMAIN all_corrected') \ IndexSet(chunk_entries') :
                       /\ x \in DOMAIN all_corrected
                       /\ all_corrected'[x] = all_corrected[x] )
         ]_vars

\* the first pass-2 chunk failed after pass 1 had corrected its segment, the
\* segment still has the pass-1 text and another chunk is still to come
C5_Witness ==
    /\ variant = "gemini_v3"
    /\ pc = "pass2"
    /\ chunk_num = 2
    /\ chunk_num <= total_chunks
    /\ ~Truthy(response_text)
    /\ 1 \in IndexSet(chunk_entries)
    /\ all_corrected[1] = <<"A">>

\* C6: no error in the oracle path terminates the process, in any of the
\* oracle-backed pipelines.
C6_NoOracleErrorTerminates == pc # "crashed"

RECURSIVE Flatten(_)
Flatten(ss) == IF ss = <<>> THEN <<>> ELSE Head(ss) \o Flatten(Tail(ss))

\* chs (lists of indices) cuts the index list of es into ceil(N/K) non-empty
\* consecutive pieces of K indices, the last one possibly shorter
IsPartition(chs, es, K) ==
    /\ Len(chs) = Ceil(Len(es), K)
    /\ Flatten(chs) = Indices(es)
    /\ \A c \in DOMAIN chs :
          /\ Len(chs[c]) >= 1
          /\ Len(chs[c]) <= K
          /\ c < Len(chs) => Len(chs[c]) = K

DispatchedInPass(p) ==
    LET ds == SelectSeq(dispatched, LAMBDA d : d.pass = p)
    IN [k \in DOMAIN ds |-> ds[k].indices]

\* C7 (Chunk coverage): the chunks of a pass, and the batches of the
\* splitter, are ceil(N/K) consecutive slices of at most K segments whose
\* concatenation is the whole segment sequence; no empty batch is dispatched.
C7_ChunkCoverage ==
    /\ (variant = "split" /\ pc = "done")
          => IsPartition([c \in DOMAIN batches |-> Indices(batches[c])],
                         parsed, chunk_size)
    /\ (variant \in Gemini /\ pc \in {"pass2", "post", "write", "done"})
          => IsPartition(DispatchedInPass(1), parsed, chunk_size)
    /\ (variant \in {"claude_ai", "rule"} /\ pc = "done")
          => IsPartition(DispatchedInPass(1), parsed, chunk_size)
    /\ \A k \in DOMAIN dispatched : dispatched[k].indices # <<>>

\* three segments in chunks of two: a full chunk and a shorter last one
C7_Witness ==
    /\ variant = "gemini_v3"
    /\ pc = "post"
    /\ Len(parsed) = 3
    /\ chunk_size = 2
    /\ DispatchedInPass(1) = << <<1, 2>>, <<3>> >>

\* C8: in a two-pass run the text a pass-2 response gives a segment of its
\* chunk replaces the pass-1 text: it is the segment's value in the map when
\* pass 2 is over, before the dictionary pass.
C8_Pass2Supersedes ==
    (variant = "gemini_v3" /\ pc = "post")
        => \A i \in DOMAIN pass2_returned :
              /\ i \in DOMAIN all_corrected
              /\ all_corrected[i] = pass2_returned[i]

\* the Rule-Based Corrector over the pattern store: fillers deleted, then the
\* substitutions, then trimmed
RuleBasedCorrector(text) ==
    strip(replace_all(remove_fillers(text, patterns.filler_words),
                      patterns.simple_patterns))

\* C9: when every oracle call of a run failed, the output has one record per
\* parsed segment and each text is the Rule-Based Corrector's result on the
\* segment's original text, fillers deleted.
C9_AllFailedRuleCorrected ==
    (variant = "gemini_v3" /\ pc = "done" /\ all_failed)
        => /\ Len(srt) = Len(parsed)
           /\ \A j \in DOMAIN srt :
                 srt[j].text = RuleBasedCorrector(parsed[j].text)

\* C10: the parser's indices are dense: with M retained segments they are
\* 1..M in document order.
C10_DenseIndices ==
    pc # "start" => \A j \in DOMAIN entries : entries[j].index = j

\* C11: the Subtitle Emitter numbers the records sequentially from 1: the
\* k-th record of the final file carries the number k, also when the parser
\* dropped blocks and when the file is assembled from per-batch files.
C11_SequentialRecordNumbers ==
    (pc = "done" /\ variant # "split")
        => \A k \in DOMAIN srt : srt[k].num = k

\* C12 (Idempotence of rule-based correction): for every text, applying the
\* Rule-Based Corrector of process_vtt.py (shipped filler list and
\* substitution table) to its own result gives that result again.
C12_RuleCorrectionIdempotent ==
    Len(rule_trace) >= 2 => rule_trace[2] = rule_trace[1]

\* the store's substitutions from the k-th on, applied one after the other
RECURSIVE SubstitutedFrom(_, _)
SubstitutedFrom(text, k) ==
    LET store == patterns.simple_patterns IN
    IF k > Len(store) THEN text
    ELSE SubstitutedFrom(str_replace(text, store[k].wrong, store[k].correct), k + 1)

\* what the emitter makes of a final text in this run's speaker-name mode
Emitted(text) == IF remove_speaker THEN remove_speaker_name(text) ELSE text

OracleVariants == {"gemini_v3", "gemini_v2", "claude_ai"}

\* the number of chunks of a pass over the parsed segments
NumChunks == Ceil(Len(parsed), chunk_size)

\* C14: within a pass the scheduler sleeps the configured, non-zero delay
\* after chunk k is done and before chunk k+1 is dispatched, for every k
\* below the number of chunks, and does not sleep after the last chunk.
C14_DelayBetweenChunks ==
    variant \in OracleVariants =>
        \A i \in DOMAIN log :
            /\ log[i].type = "merge" =>
                  IF log[i].chunk < NumChunks
                  THEN /\ i < Len(log)
                       /\ log[i + 1].type = "sleep"
                       /\ log[i + 1].seconds = sleep_seconds(variant)
                       /\ log[i + 1].seconds > 0
                  ELSE i = Len(log) \/ log[i + 1].type # "sleep"
            /\ (log[i].type = "dispatch" /\ log[i].chunk > 1) =>
                  /\ i > 1
                  /\ log[i - 1].type = "sleep"
                  /\ log[i - 1].pass = log[i].pass
                  /\ log[i - 1].chunk = log[i].chunk - 1
            /\ log[i].type = "sleep" =>
                  /\ i > 1
                  /\ log[i - 1].type = "merge"
                  /\ log[i - 1].chunk = log[i].chunk

\* a two-pass run over two chunks slept once in each pass and not after
\* either pass's last chunk
C14_Witness ==
    /\ variant = "gemini_v3"
    /\ enable_two_pass
    /\ pc = "post"
    /\ NumChunks = 2
    /\ Len(SelectSeq(log, LAMBDA ev : ev.type = "sleep")) = 2
    /\ log[Len(log)].type = "merge"
    /\ log[4] = Event("sleep", 1, 1, 1)

\* C15: segments are immutable once parsed: in every pipeline the parsed
\* records keep their index, start, end and text through all chunk
\* corrections, and the start and end written for a segment are the parsed
\* ones whatever the oracle returned.
C15_SegmentsImmutable ==
    pc \notin {"start", "idle"} =>
        /\ entries = parsed
        /\ (pc = "done" /\ variant # "split") =>
              /\ Len(srt) = Len(parsed)
              /\ \A j \in DOMAIN srt :
                    /\ srt[j].start = vtt_time_to_srt_time(parsed[j].start)
                    /\ srt[j].end = vtt_time_to_srt_time(parsed[j].end)

\* the text with the leading speaker label of each of its lines removed
WithoutLabels(text) ==
    LET lines == split(text)
    IN join([k \in DOMAIN lines |-> remove_speaker_name(lines[k])])

\* the text the emitter is given for the j-th segment
FinalText(j) == DictGet(all_corrected, entries[j].index, entries[j].text)

\* C16: with speaker-name removal on, the leading speaker label is stripped
\* from each line of every emitted text, second and later lines included;
\* with removal off every emitted text is written as it is.
C16_SpeakerLabelsStripped ==
    (variant = "gemini_v3" /\ pc = "done") =>
        /\ Len(srt) = Len(entries)
        /\ \A j \in DOMAIN srt :
              srt[j].text = (IF remove_speaker THEN WithoutLabels(FinalText(j))
                             ELSE FinalText(j))

\* C17 (Timestamp conversion): the start and the end written for a record
\* are the parsed HH:MM:SS.mmm with the period turned into a comma: the same
\* length, a comma where the period was, and every other character the same
\* in the same position.
C17_TimestampConversion ==
    pc = "done" =>
        /\ Len(srt) = Len(entries)
        /\ \A j \in DOMAIN srt :
              \A io \in { <<entries[j].start, srt[j].start>>,
                          <<entries[j].end, srt[j].end>> } :
                 /\ Len(io[2]) = Len(io[1])
                 /\ Len(io[1]) = 12
                 /\ \A k \in 1..12 :
                       IF k = 9 THEN io[1][k] = "." /\ io[2][k] = ","
                       ELSE io[2][k] = io[1][k] /\ io[2][k] # ","

\* two records written from batch files, the first from 12:59:07.999 to
\* 00:00:07.500
C17_Witness ==
    /\ pc = "done"
    /\ variant = "rule"
    /\ Len(srt) = 2
    /\ entries[1].start = <<"1", "2", ":", "5", "9", ":", "0", "7", ".", "9", "9", "9">>
    /\ srt[1].start = <<"1", "2", ":", "5", "9", ":", "0", "7", ",", "9", "9", "9">>
    /\ srt[1].end = <<"0", "0", ":", "0", "0", ":", "0", "7", ",", "5", "0", "0">>
    /\ srt[2].start = <<"0", "0", ":", "0", "0", ":", "0", "3", ",", "5", "0", "0">>

\* the oracle calls dispatched and not yet returned after n events
Outstanding(n) ==
    Cardinality({i \in 1..n : log[i].type = "dispatch"})
        - Cardinality({i \in 1..n : log[i].type = "return"})

\* the event happened before the i-th one
Before(ev, i) == \E m \in 1..(i - 1) : log[m] = ev

\* C18: oracle dispatch is sequential and ordered: never more than one call
\* outstanding, the chunks of a pass dispatched in ascending order, the
\* result of chunk k merged into the correction map before chunk k+1 is
\* dispatched, and no pass-2 chunk dispatched before every pass-1 chunk has
\* completed.
C18_SequentialDispatch ==
    /\ [](variant \in OracleVariants =>
            /\ \A n \in 0..Len(log) : Outstanding(n) \in {0, 1}
            /\ \A p \in {1, 2} :
                  LET ds == SelectSeq(log, LAMBDA ev : ev.type = "dispatch" /\ ev.pass = p)
                  IN \A k \in DOMAIN ds : ds[k].chunk = k
            /\ \A i \in DOMAIN log :
                  log[i].type = "dispatch" =>
                      /\ log[i].chunk > 1 =>
                            Before(Event("merge", log[i].pass, log[i].chunk - 1, 0), i)
                      /\ log[i].pass = 2 =>
                            \A c \in 1..NumChunks :
                                /\ Before(Event("return", 1, c, 0), i)
                                /\ Before(Event("merge", 1, c, 0), i))
    /\ [][ ChunkStep =>
              \A k \in DOMAIN dispatched :
                  \A j \in DOMAIN dispatched[k].indices :
                      dispatched[k].indices[j] \in DOMAIN all_corrected ]_vars

\* the first pass-2 chunk of a run with two chunks per pass has been
\* processed: three calls dispatched so far, each returned and merged
C18_Witness ==
    /\ variant = "gemini_v3"
    /\ pc = "pass2"
    /\ chunk_num = 2
    /\ NumChunks = 2
    /\ Len(SelectSeq(log, LAMBDA ev : ev.type = "dispatch")) = 3
    /\ Outstanding(Len(log)) = 0
    /\ Truthy(response_text)

\* the pipeline data the progress indicator has no business with
PipelineData == {"all_corrected", "entries"}

\* C19: the progress-indicator thread is joined before control returns to
\* the scheduler: on the success and on the failure path the running flag is
\* false and the thread has terminated when call_gemini_api returns; once
\* stop is called the thread eventually terminates; and the thread never
\* reads or writes the correction map or the segments.
C19_SpinnerJoinedBeforeReturn ==
    /\ []( (call_pc = "scheduler" /\ calls > 0)
              => (~spinner_running /\ spinner_thread = "dead") )
    /\ []( spinner_touched \cap PipelineData = {} )
    /\ [][ SpinnerThread => UNCHANGED <<all_corrected, entries>> ]_vars
    /\ ( (call_pc \in {"join_success", "join_failure"}) ~> (spinner_thread = "dead") )

\* a call whose response had no choices came back on the failure path, after
\* the thread had drawn some frames and stop had run twice
C19_Witness ==
    /\ call_pc = "scheduler"
    /\ calls = 2
    /\ call_path = "failure"
    /\ api_outcome = NoChoices
    /\ call_result = None
    /\ spin_idx = 3
    /\ spinner_thread = "dead"

\* the parsed segments at positions a..b (1-based), none when a > b
SegRange(a, b) == [k \in 1..(b - a + 1) |-> parsed[a + k - 1]]

\* the lines "[index] text" of the segments, one per line
AsLines(es) == join([k \in DOMAIN es |-> format_line(es[k])])

\* C20: the context sent with a pass-1 chunk covering positions s+1..e is
\* made of the up to W segments right before the chunk and the up to W right
\* after it, clipped at the ends of the sequence (none before the first
\* chunk, none after the last), with their original texts, and holds no
\* segment of the chunk itself.
C20_ContextWindow ==
    (variant = "gemini_v3" /\ pc = "pass1" /\ chunk_num > 1) =>
        LET N      == Len(parsed)
            W      == context_window
            s      == (chunk_num - 2) * chunk_size
            e      == s + Len(chunk_entries)
            before == SegRange(Max2(1, s - W + 1), s)
            after  == SegRange(e + 1, Min2(N, e + W))
        IN /\ chunk_entries = SegRange(s + 1, e)
           /\ prompt.pass = 1
           /\ prompt.context_before = AsLines(before)
           /\ prompt.context_after = AsLines(after)
           /\ Len(before) = Min2(W, s)
           /\ Len(after) = Min2(W, N - e)
           /\ IndexSet(before) \cap IndexSet(chunk_entries) = {}
           /\ IndexSet(after) \cap IndexSet(chunk_entries) = {}
           /\ (chunk_num = 2) => prompt.context_before = <<>>
           /\ (e = N) => prompt.context_after = <<>>

\* the middle chunk of three one-segment chunks went out with one segment
\* of context on either side
C20_Witness ==
    /\ variant = "gemini_v3"
    /\ pc = "pass1"
    /\ chunk_num = 3
    /\ chunk_size = 1
    /\ Len(parsed) = 3
    /\ prompt.context_before = format_line(parsed[1])
    /\ prompt.context_after = format_line(parsed[3])
    /\ prompt.input_text = format_line(parsed[2])

\* the set of indices of a sequence of indices
Targets(indices) == {indices[j] : j \in DOMAIN indices}

\* C21: when pass 2 of the Gemini v3 scheduler is over, whatever the pass-1
\* responses were, every parsed segment index was a correction target of
\* exactly one pass-2 chunk, and that chunk held the same set of indices as
\* the pass-1 chunk with the same chunk number.
C21_Pass2ChunksMatchPass1 ==
    (variant = "gemini_v3" /\ pc = "post" /\ enable_two_pass) =>
        LET p1 == DispatchedInPass(1)
            p2 == DispatchedInPass(2)
        IN /\ Len(p2) = Len(p1)
           /\ \A i \in IndexSet(parsed) :
                 \E k \in DOMAIN p2 :
                    /\ i \in Targets(p2[k])
                    /\ \A m \in DOMAIN p2 : i \in Targets(p2[m]) => m = k
                    /\ Targets(p2[k]) = Targets(p1[k])

====
